---- MODULE Spec2Model ----
(***************************************************************************)
(* oneliner-cli (src/oneliners.rs): a store of single-line snippets kept   *)
(* in the file <home>/.oneliners, with the subcommands store, get, list.   *)
(*                                                                         *)
(* A text (a Rust String, the file's contents) is a sequence of character  *)
(* codes; the characters used are ASCII.                                   *)
(***************************************************************************)
EXTENDS Integers, Sequences, FiniteSets, TLC

VARIABLES
    oneliners_file,  \* the file <home>/.oneliners: [exists, bytes]
    pre,             \* the file as it was when the last invocation started
    cli,             \* the last invocation's parsed command line: [command, arg]
    stdin,           \* what the last invocation found on standard input
    env,             \* its environment: [xclip, home] (is xclip on PATH; is there a
                     \* home directory get_oneliners_file can use)
    stdout,          \* what it printed, one message per println!
    clipboard,       \* the texts it handed to copy_to_clipboard
    exit_code,       \* its exit status
    touched,         \* what it reached: [home_resolved, file_opened, stdin_read]
    proc             \* concurrent store invocations: [pc, oneliner, exists, stdout,
                     \* pos, cur]

vars == <<oneliners_file, pre, cli, stdin, env, stdout, clipboard, exit_code,
          touched, proc>>

----------------------------------------------------------------------------
(* Characters *)

\* '\n'
LF == 10
\* '\r'
CR == 13
\* '0': the digits are ZERO .. ZERO + 9
ZERO == 48
\* '+', the sign usize's FromStr accepts
PLUS == 43

\* char::is_whitespace, on ASCII: \t \n \x0B \x0C \r and the space
White_Space == (9 .. 13) \cup {32}

----------------------------------------------------------------------------
(* Bounds *)

\* a sequential run stores until the file holds this many lines
MaxLines == 3
\* the files of InitFiles: every text over FileAlphabet up to this length
MaxFileLen == 4
\* and the generated files of up to this many lines
MaxFileLines == 15

----------------------------------------------------------------------------
(* Text helpers: str and BufRead methods the program calls *)

Min(S) == CHOOSE x \in S : \A y \in S : x <= y
Max(S) == CHOOSE x \in S : \A y \in S : y <= x

\* str::trim: the text without its leading and trailing whitespace
trim(s) ==
    LET keep == {i \in 1 .. Len(s) : s[i] \notin White_Space}
    IN  IF keep = {} THEN <<>> ELSE SubSeq(s, Min(keep), Max(keep))

\* str::contains(&str): needle occurs in hay as a contiguous run
contains(hay, needle) ==
    \E i \in 0 .. (Len(hay) - Len(needle)) :
        SubSeq(hay, i + 1, i + Len(needle)) = needle

\* str::is_empty
is_empty(s) == Len(s) = 0

\* BufRead::read_line: the bytes up to and including the first '\n', or all
read_line(bytes) ==
    LET nl == {i \in 1 .. Len(bytes) : bytes[i] = LF}
    IN  IF nl = {} THEN bytes ELSE SubSeq(bytes, 1, Min(nl))

\* Lines::next's trimming of one read_line buffer: a final '\n' is dropped,
\* and then a '\r' before it
strip_newline(buf) ==
    IF buf # <<>> /\ buf[Len(buf)] = LF
    THEN LET b == SubSeq(buf, 1, Len(buf) - 1)
         IN  IF b # <<>> /\ b[Len(b)] = CR THEN SubSeq(b, 1, Len(b) - 1) ELSE b
    ELSE buf

\* BufRead::lines, collected
RECURSIVE lines(_)
lines(bytes) ==
    IF bytes = <<>> THEN <<>>
    ELSE LET buf == read_line(bytes)
         IN  <<strip_newline(buf)>> \o lines(SubSeq(bytes, Len(buf) + 1, Len(bytes)))

\* Iterator::take
take(s, n) == SubSeq(s, 1, IF Len(s) < n THEN Len(s) ELSE n)

\* Iterator::filter(|line| !line.is_empty())
RECURSIVE filter_nonempty(_)
filter_nonempty(s) ==
    IF s = <<>> THEN <<>>
    ELSE (IF ~is_empty(Head(s)) THEN <<Head(s)>> ELSE <<>>) \o filter_nonempty(Tail(s))

\* filter_matching without its emptiness test
RECURSIVE filter_matching_any(_, _)
filter_matching_any(s, search) ==
    IF s = <<>> THEN <<>>
    ELSE (IF contains(Head(s), search) THEN <<Head(s)>> ELSE <<>>)
         \o filter_matching_any(Tail(s), search)

\* Iterator::filter(|line| !line.is_empty() && line.contains(search))
RECURSIVE filter_matching(_, _)
filter_matching(s, search) ==
    IF s = <<>> THEN <<>>
    ELSE (IF ~is_empty(Head(s)) /\ contains(Head(s), search) THEN <<Head(s)>> ELSE <<>>)
         \o filter_matching(Tail(s), search)

\* map_trim with the trim left out
map_trim_skipped(s) == s

\* Iterator::map(|line| line.trim().to_string())
map_trim(s) == [i \in 1 .. Len(s) |-> trim(s[i])]

\* the value of a run of decimal digits (used where it is known to be small)
RECURSIVE digits_value(_)
digits_value(s) ==
    IF s = <<>> THEN 0
    ELSE 10 * digits_value(SubSeq(s, 1, Len(s) - 1)) + (s[Len(s)] - ZERO)

\* a usize is kept as its decimal digits without leading zeros: the values
\* usize holds go beyond the integers at hand
RECURSIVE strip_zeros(_)
strip_zeros(digits) ==
    IF Len(digits) > 1 /\ digits[1] = ZERO THEN strip_zeros(Tail(digits)) ELSE digits

\* the digits of a natural number
RECURSIVE to_digits(_)
to_digits(n) ==
    IF n < 10 THEN <<ZERO + n>> ELSE to_digits(n \div 10) \o <<ZERO + (n % 10)>>

\* usize::MAX on a 64-bit target, 18446744073709551615
UsizeMaxDigits ==
    <<49, 56, 52, 52, 54, 55, 52, 52, 48, 55, 51, 55, 48, 57, 53, 53, 49, 54, 49, 53>>

\* a <= b for two usize values
usize_le(a, b) ==
    \/ Len(a) < Len(b)
    \/ /\ Len(a) = Len(b)
       /\ \/ a = b
          \/ \E i \in 1 .. Len(a) :
                /\ a[i] < b[i]
                /\ \A h \in 1 .. (i - 1) : a[h] = b[h]

\* str::parse::<usize>: an optional '+', then one or more decimal digits whose
\* value is at most usize::MAX (Err(PosOverflow) beyond it)
parse_usize(s) ==
    LET digits == IF s # <<>> /\ s[1] = PLUS THEN Tail(s) ELSE s
    IN  IF digits = <<>> \/ \E i \in 1 .. Len(digits) : digits[i] \notin ZERO .. (ZERO + 9)
        THEN [ok |-> FALSE, value |-> <<ZERO>>]
        ELSE IF ~usize_le(strip_zeros(digits), UsizeMaxDigits)
        THEN [ok |-> FALSE, value |-> <<ZERO>>]
        ELSE [ok |-> TRUE, value |-> strip_zeros(digits)]

----------------------------------------------------------------------------
(* Program constants *)

\* list_oneliners: .take(10)
ListLimit == 10
\* get_oneliner: .take(3)
GetLimit == 3
\* main: exit(1) when xclip is missing
ExitNoXclip == 1
\* the exit status of a Rust panic (get_oneliners_file's panic!)
ExitPanic == 101

----------------------------------------------------------------------------
(* Output: one record per println! *)

Msg(kind) == [kind |-> kind, ord |-> 0, text |-> <<>>]

\* store_oneliner's error line
ErrMultiline ==
    "Error: That's not a oneliner! Multi-line snippets are not current supported. You entered:"

\* println!("Snippet stored successfully! [{}]", file_path); the path is
\* <home>/.oneliners in every run and is left out
Stored == Msg("Snippet stored successfully! [{}]")

\* for (i, line) in items.iter().enumerate() { println!("{}: {}", i + 1, line) }
numbered(items) ==
    [j \in 1 .. Len(items) |-> [kind |-> "{}: {}", ord |-> (j - 1) + 1, text |-> items[j]]]

----------------------------------------------------------------------------
(* The file: [exists |-> BOOLEAN, bytes |-> text]; bytes = <<>> while absent *)

Absent == [exists |-> FALSE, bytes |-> <<>>]

\* open_append as File::create would open: the contents are dropped
open_truncate(file) == [exists |-> TRUE, bytes |-> <<>>]

\* OpenOptions::new().create(true).append(true).open(file_path)
open_append(file) == [exists |-> TRUE, bytes |-> file.bytes]

\* one write_all on a file opened for appending
write_all(file, bytes) == [file EXCEPT !.bytes = @ \o bytes]

\* writeln as write! would write: no line terminator
writeln_unterminated(file, oneliner) == write_all(file, oneliner)

\* writeln!(file, "{}", oneliner): write_fmt hands the file the argument and
\* then the "\n" piece, one write_all each
writeln(file, oneliner) == write_all(write_all(file, oneliner), <<LF>>)

----------------------------------------------------------------------------
(* The program's functions *)

\* list_oneliners listing the most recent ListLimit entries, not the first
list_oneliners_recent(file) ==
    IF ~file.exists
    THEN <<Msg("No oneliners stored yet.")>>
    ELSE LET all == filter_nonempty(map_trim(lines(file.bytes)))
             entries == SubSeq(all, Max({1, Len(all) - ListLimit + 1}), Len(all))
         IN  IF entries = <<>> THEN <<Msg("No entries found.")>> ELSE numbered(entries)

\* fn list_oneliners: what it prints
list_oneliners(file) ==
    IF ~file.exists
    THEN <<Msg("No oneliners stored yet.")>>
    ELSE LET entries == take(filter_nonempty(map_trim(lines(file.bytes))), ListLimit)
         IN  IF entries = <<>> THEN <<Msg("No entries found.")>> ELSE numbered(entries)

\* line_exists_in_file comparing the line and the candidate as they are
line_exists_untrimmed(file, search) ==
    /\ file.exists
    /\ LET stored == lines(file.bytes)
       IN  \E i \in 1 .. Len(stored) : stored[i] = search

\* fn line_exists_in_file
line_exists_in_file(file, search) ==
    /\ file.exists
    /\ LET stored == lines(file.bytes)
       IN  \E i \in 1 .. Len(stored) : trim(stored[i]) = trim(search)

\* is_multiline looking for "\r\n" only
is_multiline_crlf(oneliner) == contains(oneliner, <<CR, LF>>)

\* store_oneliner's validation: true for a candidate it rejects
is_multiline(oneliner) == contains(oneliner, <<LF>>) \/ contains(oneliner, <<CR, LF>>)

\* fn store_oneliner: the file it leaves, what it prints, whether it opened the file
store_oneliner(oneliner, file) ==
    IF is_multiline(oneliner)
    THEN [file |-> file,
          stdout |-> <<Msg(ErrMultiline),
                       [kind |-> "{}", ord |-> 0, text |-> oneliner]>>,
          opened |-> FALSE]
    ELSE IF ~line_exists_in_file(file, oneliner)
    THEN [file |-> writeln(open_append(file), oneliner),
          stdout |-> <<Stored>>,
          opened |-> TRUE]
    ELSE [file |-> file, stdout |-> <<Msg("Snippet already present.")>>, opened |-> TRUE]

\* get_oneliner taking GetLimit lines before it filters them
get_oneliner_take_first(search, file) ==
    IF ~file.exists
    THEN [matches |-> <<>>, stdout |-> <<Msg("No oneliners stored yet.")>>]
    ELSE LET matches == filter_matching(take(lines(file.bytes), GetLimit), search)
         IN  [matches |-> matches,
              stdout |-> IF matches = <<>> THEN <<Msg("No matches found.")>> ELSE <<>>]

\* fn get_oneliner: the matches it returns and what it prints
get_oneliner(search, file) ==
    IF ~file.exists
    THEN [matches |-> <<>>, stdout |-> <<Msg("No oneliners stored yet.")>>]
    ELSE LET matches == take(filter_matching(lines(file.bytes), search), GetLimit)
         IN  [matches |-> matches,
              stdout |-> IF matches = <<>> THEN <<Msg("No matches found.")>> ELSE <<>>]

\* fn copy_to_clipboard: the text is handed to xclip, the message printed
\* whatever became of the child
copy_to_clipboard(text) ==
    [clipboard |-> <<text>>, stdout |-> <<Msg("Snippet copied to clipboard!")>>]

\* select_oneliner refusing the last ordinal
select_oneliner_short(oneliners, input) ==
    IF oneliners = <<>>
    THEN [clipboard |-> <<>>, stdout |-> <<>>, stdin_read |-> FALSE]
    ELSE LET selection == read_line(input)
             choice == parse_usize(trim(selection))
             prompt == [kind |-> "Select a oneliner (1-{}):", ord |-> Len(oneliners),
                        text |-> <<>>]
         IN  IF /\ choice.ok
                /\ choice.value # to_digits(0)
                /\ usize_le(choice.value, to_digits(Len(oneliners)))
                /\ choice.value # to_digits(Len(oneliners))
             THEN LET c == copy_to_clipboard(oneliners[(digits_value(choice.value) - 1) + 1])
                  IN  [clipboard |-> c.clipboard, stdout |-> <<prompt>> \o c.stdout,
                       stdin_read |-> TRUE]
             ELSE [clipboard |-> <<>>, stdout |-> <<prompt>>, stdin_read |-> TRUE]

\* main's Get arm, after get_oneliner returned its matches
select_oneliner(oneliners, input) ==
    IF oneliners = <<>>
    THEN [clipboard |-> <<>>, stdout |-> <<>>, stdin_read |-> FALSE]
    ELSE LET selection == read_line(input)
             choice == parse_usize(trim(selection))
             prompt == [kind |-> "Select a oneliner (1-{}):", ord |-> Len(oneliners),
                        text |-> <<>>]
         IN  IF /\ choice.ok
                /\ choice.value # to_digits(0)
                /\ usize_le(choice.value, to_digits(Len(oneliners)))
             THEN LET c == copy_to_clipboard(oneliners[(digits_value(choice.value) - 1) + 1])
                  IN  [clipboard |-> c.clipboard, stdout |-> <<prompt>> \o c.stdout,
                       stdin_read |-> TRUE]
             ELSE [clipboard |-> <<>>, stdout |-> <<prompt>>, stdin_read |-> TRUE]

Untouched == [home_resolved |-> FALSE, file_opened |-> FALSE, stdin_read |-> FALSE]

\* main past its two checks: the subcommand's arm
dispatch(c, input, file) ==
    IF c.command = "store"
    THEN LET r == store_oneliner(c.arg, file)
         IN  [file |-> r.file, stdout |-> r.stdout, clipboard |-> <<>>, exit_code |-> 0,
              touched |-> [home_resolved |-> TRUE, file_opened |-> r.opened,
                           stdin_read |-> FALSE]]
    ELSE IF c.command = "get"
    THEN LET r == get_oneliner(c.arg, file)
             s == select_oneliner(r.matches, input)
         IN  [file |-> file, stdout |-> r.stdout \o numbered(r.matches) \o s.stdout,
              clipboard |-> s.clipboard, exit_code |-> 0,
              touched |-> [home_resolved |-> TRUE, file_opened |-> TRUE,
                           stdin_read |-> s.stdin_read]]
    ELSE [file |-> file, stdout |-> list_oneliners(file), clipboard |-> <<>>,
          exit_code |-> 0,
          touched |-> [home_resolved |-> TRUE, file_opened |-> TRUE,
                       stdin_read |-> FALSE]]

\* main resolving the home directory before it looks for xclip
main_home_first(c, input, e, file) ==
    IF ~e.home
    THEN [file |-> file, stdout |-> <<>>, clipboard |-> <<>>, exit_code |-> ExitPanic,
          touched |-> [Untouched EXCEPT !.home_resolved = TRUE]]
    ELSE IF ~e.xclip
    THEN [file |-> file, stdout |-> <<Msg("xclip is not installed.")>>,
          clipboard |-> <<>>, exit_code |-> ExitNoXclip,
          touched |-> [Untouched EXCEPT !.home_resolved = TRUE]]
    ELSE dispatch(c, input, file)

\* fn main: one invocation with the parsed command line c, standard input
\* input and environment e, on the file as it is
main(c, input, e, file) ==
    IF ~e.xclip
    THEN [file |-> file, stdout |-> <<Msg("xclip is not installed.")>>,
          clipboard |-> <<>>, exit_code |-> ExitNoXclip, touched |-> Untouched]
    ELSE IF ~e.home
    THEN [file |-> file, stdout |-> <<>>, clipboard |-> <<>>, exit_code |-> ExitPanic,
          touched |-> [Untouched EXCEPT !.home_resolved = TRUE]]
    ELSE dispatch(c, input, file)

----------------------------------------------------------------------------
(* Inputs *)

\* store's argument: "", " ", "a", " a ", "a\r", "A", "a\rb", "a\n", "a\r\nb"
Oneliners ==
    { <<>>, <<32>>, <<97>>, <<32, 97, 32>>, <<97, CR>>, <<65>>, <<97, CR, 98>>,
      <<97, LF>>, <<97, CR, LF, 98>> }

\* get's argument: "", "a", "A", " ", "ab"
Searches == { <<>>, <<97>>, <<65>>, <<32>>, <<97, 98>> }

\* standard input: nothing, "0\n" .. "4\n", "+2\n", " 1 \n", "x\n", "-1\n", "2",
\* "1\n3\n", "01\n", usize::MAX and the number after it
Inputs ==
    { <<>>, <<48, LF>>, <<49, LF>>, <<50, LF>>, <<51, LF>>, <<52, LF>>,
      <<PLUS, 50, LF>>, <<32, 49, 32, LF>>, <<120, LF>>, <<45, 49, LF>>, <<50>>,
      <<49, LF, 51, LF>>, <<48, 49, LF>>, UsizeMaxDigits \o <<LF>>,
      SubSeq(UsizeMaxDigits, 1, 19) \o <<54, LF>> }

\* the environment: all well, no home directory, no xclip
Envs ==
    { [xclip |-> TRUE, home |-> TRUE], [xclip |-> TRUE, home |-> FALSE],
      [xclip |-> FALSE, home |-> TRUE] }

\* the arguments and inputs of get in a sequence of invocations: "a", " " and
\* "1\n", "3\n"
SeqSearches == { <<97>>, <<32>> }
SeqInputs == { <<49, LF>>, <<51, LF>> }

----------------------------------------------------------------------------
(* One invocation: a run of the program from its start to its exit *)

NoProc == <<>>

Invoke(c, input, e) ==
    LET r == main(c, input, e, oneliners_file)
    IN  /\ pre' = oneliners_file
        /\ oneliners_file' = r.file
        /\ cli' = c
        /\ stdin' = input
        /\ env' = e
        /\ stdout' = r.stdout
        /\ clipboard' = r.clipboard
        /\ exit_code' = r.exit_code
        /\ touched' = r.touched
        /\ UNCHANGED proc

Store == \E oneliner \in Oneliners, e \in Envs :
    Invoke([command |-> "store", arg |-> oneliner], <<>>, e)

Get(searches, inputs) == \E search \in searches, input \in inputs, e \in Envs :
    Invoke([command |-> "get", arg |-> search], input, e)

List == \E e \in Envs : Invoke([command |-> "list", arg |-> <<>>], <<>>, e)

NothingRan ==
    /\ pre = oneliners_file
    /\ cli = [command |-> "none", arg |-> <<>>]
    /\ stdin = <<>>
    /\ env = [xclip |-> TRUE, home |-> TRUE]
    /\ stdout = <<>>
    /\ clipboard = <<>>
    /\ exit_code = 0
    /\ touched = Untouched

----------------------------------------------------------------------------
(* Spec: sequential invocations, from no file or an empty one *)

Init ==
    /\ oneliners_file \in {Absent, [exists |-> TRUE, bytes |-> <<>>]}
    /\ NothingRan
    /\ proc = NoProc

\* store, while the file stays within MaxLines lines
SeqStore == Store /\ Len(lines(oneliners_file'.bytes)) <= MaxLines

SeqGet == Get(SeqSearches, SeqInputs)

Next == SeqStore \/ SeqGet \/ List

Spec == Init /\ [][Next]_vars

----------------------------------------------------------------------------
(* SpecFiles: one invocation on any file *)

\* the characters of the files: 'a', ' ', '\n', '\r'
FileAlphabet == {97, 32, LF, CR}

Texts(alphabet, n) == UNION { [1 .. k -> alphabet] : k \in 0 .. n }

\* line i of a generated file: "b", "c", ... with 'a' before it, in four styles:
\* bare ("ab\n"), padded (" ab \r\n"), upper case every second line ("AB\n"),
\* and blank every third line ("\n", " \n" in turn)
GenLine(style, i) ==
    LET word == <<97, 97 + i>>
    IN  CASE style = 1 -> word \o <<LF>>
          [] style = 2 -> <<32>> \o word \o <<32, CR, LF>>
          [] style = 3 -> (IF i % 2 = 0 THEN <<65, 65 + i>> ELSE word) \o <<LF>>
          [] OTHER -> (IF i % 3 = 1 THEN (IF i % 2 = 0 THEN <<32>> ELSE <<>>) ELSE word)
                      \o <<LF>>

RECURSIVE GenFile(_, _)
GenFile(style, n) ==
    IF n = 0 THEN <<>> ELSE GenFile(style, n - 1) \o GenLine(style, n)

Files ==
    {Absent}
    \cup { [exists |-> TRUE, bytes |-> b] : b \in Texts(FileAlphabet, MaxFileLen) }
    \cup { [exists |-> TRUE, bytes |-> GenFile(style, n)] :
             style \in 1 .. 4, n \in 1 .. MaxFileLines }

InitFiles ==
    /\ oneliners_file \in Files
    /\ NothingRan
    /\ proc = NoProc

AnyGet == Get(Searches, Inputs)

NextOnce == cli.command = "none" /\ (Store \/ AnyGet \/ List)

SpecFiles == InitFiles /\ [][NextOnce]_vars

----------------------------------------------------------------------------
(* SpecRace: two store invocations at once, each a process running           *)
(* store_oneliner; a step is one system call on the file.  The file is      *)
(* smaller than BufReader's buffer, so each read returns all the bytes      *)
(* past the reader's offset, and none at the end of the file.               *)

Procs == {1, 2}

\* the arguments of the racing stores: "a", " a ", "A", " ", "a\n"
RaceOneliners == { <<97>>, <<32, 97, 32>>, <<65>>, <<32>>, <<97, LF>> }

\* the file the race starts on: none, or one holding "A\n" or "b\n"
RaceFiles ==
    { Absent, [exists |-> TRUE, bytes |-> <<65, LF>>],
      [exists |-> TRUE, bytes |-> <<98, LF>>] }

InitRace ==
    /\ oneliners_file \in RaceFiles
    /\ NothingRan
    /\ proc = [p \in Procs |->
                 [pc |-> "start", oneliner |-> <<>>, exists |-> FALSE, stdout |-> <<>>,
                  pos |-> 0, cur |-> <<>>]]

\* store_oneliner is entered with its argument and validates it
Validate(p) ==
    /\ proc[p].pc = "start"
    /\ \E oneliner \in RaceOneliners :
         proc' = [proc EXCEPT ![p] =
                    IF is_multiline(oneliner)
                    THEN [@ EXCEPT !.oneliner = oneliner, !.pc = "done",
                                   !.stdout = store_oneliner(oneliner, oneliners_file).stdout]
                    ELSE [@ EXCEPT !.oneliner = oneliner, !.pc = "open_read"]]
    /\ UNCHANGED <<oneliners_file, pre, cli, stdin, env, stdout, clipboard, exit_code,
                   touched>>

\* line_exists_in_file returns true: store_oneliner reports the duplicate
Found(r) ==
    [r EXCEPT !.exists = TRUE, !.pc = "done", !.cur = <<>>,
              !.stdout = <<Msg("Snippet already present.")>>]

\* line_exists_in_file returns false: store_oneliner goes on to append
Missed(r) == [r EXCEPT !.exists = FALSE, !.pc = "open", !.cur = <<>>]

\* line_exists_in_file opens the file; it returns false if there is none
OpenRead(p) ==
    /\ proc[p].pc = "open_read"
    /\ proc' = [proc EXCEPT ![p] =
                  IF oneliners_file.exists
                  THEN [@ EXCEPT !.pc = "read", !.pos = 0, !.cur = <<>>]
                  ELSE Missed(@)]
    /\ UNCHANGED <<oneliners_file, pre, cli, stdin, env, stdout, clipboard, exit_code,
                   touched>>

\* one read of the file by BufReader, and the lines reader.lines() yields from
\* it.  cur is the part of a line read so far.  A read that returns bytes ends
\* the lines up to its last '\n' and leaves the rest in cur; a read at the
\* end of the file ends the line in cur, or the iteration if cur is empty.
Read(p) ==
    /\ proc[p].pc = "read"
    /\ LET chunk == SubSeq(oneliners_file.bytes, proc[p].pos + 1,
                           Len(oneliners_file.bytes))
           data == proc[p].cur \o chunk
           nl == {i \in 1 .. Len(data) : data[i] = LF}
           whole == lines(SubSeq(data, 1, Max(nl)))
           same(line) == trim(line) = trim(proc[p].oneliner)
       IN  proc' = [proc EXCEPT ![p] =
                      IF chunk = <<>>
                      THEN IF proc[p].cur = <<>> THEN Missed(@)
                           ELSE IF same(proc[p].cur) THEN Found(@)
                           ELSE [@ EXCEPT !.cur = <<>>]
                      ELSE IF nl = {}
                      THEN [@ EXCEPT !.cur = data, !.pos = Len(oneliners_file.bytes)]
                      ELSE IF \E i \in 1 .. Len(whole) : same(whole[i]) THEN Found(@)
                      ELSE [@ EXCEPT !.cur = SubSeq(data, Max(nl) + 1, Len(data)),
                                     !.pos = Len(oneliners_file.bytes)]]
    /\ UNCHANGED <<oneliners_file, pre, cli, stdin, env, stdout, clipboard, exit_code,
                   touched>>

\* the file is opened for appending, and created if absent
Open(p) ==
    /\ proc[p].pc = "open"
    /\ oneliners_file' = open_append(oneliners_file)
    /\ proc' = [proc EXCEPT ![p].pc = "write"]
    /\ UNCHANGED <<pre, cli, stdin, env, stdout, clipboard, exit_code, touched>>

\* writeln!'s first write: the snippet
WriteText(p) ==
    /\ proc[p].pc = "write"
    /\ oneliners_file' = write_all(oneliners_file, proc[p].oneliner)
    /\ proc' = [proc EXCEPT ![p].pc = "newline"]
    /\ UNCHANGED <<pre, cli, stdin, env, stdout, clipboard, exit_code, touched>>

\* writeln!'s second write: the line terminator; then the success message
WriteNewline(p) ==
    /\ proc[p].pc = "newline"
    /\ oneliners_file' = write_all(oneliners_file, <<LF>>)
    /\ proc' = [proc EXCEPT ![p].pc = "done",
                            ![p].stdout = <<Stored>>]
    /\ UNCHANGED <<pre, cli, stdin, env, stdout, clipboard, exit_code, touched>>

NextRace ==
    \E p \in Procs :
        Validate(p) \/ OpenRead(p) \/ Read(p) \/ Open(p) \/ WriteText(p)
        \/ WriteNewline(p)

SpecRace == InitRace /\ [][NextRace]_vars

----------------------------------------------------------------------------
(* What the claims speak of *)

OkEnv == [xclip |-> TRUE, home |-> TRUE]

\* the last invocation ran subcommand c past main's two checks
Ran(c) == cli.command = c /\ env = OkEnv

NoLineBreak(s) == \A i \in 1 .. Len(s) : s[i] # LF

\* empty, or whitespace only
Blank(s) == \A i \in 1 .. Len(s) : s[i] \in White_Space

IsEntry(m) == m.kind = "{}: {}"

\* the numbered lines of an output
Entries(out) == SelectSeq(out, IsEntry)

\* the j-th smallest member of a set of line numbers
Nth(idx, j) == CHOOSE i \in idx : Cardinality({h \in idx : h <= i}) = j

\* the first (at most limit) lines whose numbers are in idx, with ordinals 1, 2, ...
FirstOf(ls, idx, limit, Shown(_)) ==
    LET n == IF Cardinality(idx) < limit THEN Cardinality(idx) ELSE limit
    IN  [j \in 1 .. n |-> [kind |-> "{}: {}", ord |-> j, text |-> Shown(ls[Nth(idx, j)])]]

Same(s) == s

NoTwoEqualTrimmed(file) ==
    LET ls == lines(file.bytes)
    IN  \A i, j \in 1 .. Len(ls) : i < j => trim(ls[i]) # trim(ls[j])

InTrimmed(file, s) ==
    LET ls == lines(file.bytes)
    IN  \E i \in 1 .. Len(ls) : trim(ls[i]) = trim(s)

IsPrefix(s, u) == Len(s) <= Len(u) /\ SubSeq(u, 1, Len(s)) = s

----------------------------------------------------------------------------
(* C1 *)

\* C1 as stated: for every single-line s, store(s) on an empty or absent store
\* and then list yields exactly one listed entry, s trimmed.
C1_StoreThenList_Original ==
    [][ (Ran("store") /\ NoLineBreak(cli.arg) /\ pre.bytes = <<>>
         /\ cli'.command = "list" /\ env' = OkEnv)
        => stdout' = <<[kind |-> "{}: {}", ord |-> 1, text |-> trim(cli.arg)]>> ]_vars

\* C1 amended: for every single-line s that is not blank, store(s) on an empty
\* or absent store and then list yields exactly one listed entry, s trimmed; for
\* a blank s (empty or whitespace only) the line is stored and list reports no
\* entries.
C1_StoreThenList ==
    [][ (Ran("store") /\ NoLineBreak(cli.arg) /\ pre.bytes = <<>>
         /\ cli'.command = "list" /\ env' = OkEnv)
        => /\ ~Blank(cli.arg)
              => stdout' = <<[kind |-> "{}: {}", ord |-> 1, text |-> trim(cli.arg)]>>
           /\ Blank(cli.arg)
              => /\ stdout' = <<Msg("No entries found.")>>
                 /\ Len(lines(oneliners_file.bytes)) = 1 ]_vars

\* list after store(" a ") on no file: the one entry "a"
C1_Witness ==
    /\ Ran("list")
    /\ oneliners_file.bytes = <<32, 97, 32, LF>>
    /\ stdout = <<[kind |-> "{}: {}", ord |-> 1, text |-> <<97>>]>>

----------------------------------------------------------------------------
(* C2 *)

\* C2 as stated: after any sequence of stores from an empty or absent store no
\* two lines of the file are equal after trimming; a store whose trimmed
\* candidate equals some trimmed stored line reports 'already present' and
\* appends nothing.
C2_NoDuplicates_Original ==
    /\ NoTwoEqualTrimmed(oneliners_file)
    /\ (Ran("store") /\ InTrimmed(pre, cli.arg))
       => (stdout = <<Msg("Snippet already present.")>> /\ oneliners_file = pre)

\* C2 amended: no two lines of the file are equal after trimming; a store of a
\* single-line candidate whose trimmed form equals some trimmed stored line
\* reports 'already present' and appends nothing (a candidate with a line break
\* is rejected with the multi-line error, whatever the file holds).
C2_NoDuplicates ==
    /\ NoTwoEqualTrimmed(oneliners_file)
    /\ (Ran("store") /\ NoLineBreak(cli.arg) /\ InTrimmed(pre, cli.arg))
       => (stdout = <<Msg("Snippet already present.")>> /\ oneliners_file = pre)

\* store(" a ") on a file holding "a\r\n": already present
C2_Witness ==
    /\ Ran("store")
    /\ cli.arg = <<32, 97, 32>>
    /\ pre.bytes = <<97, CR, LF>>
    /\ oneliners_file = pre
    /\ stdout = <<Msg("Snippet already present.")>>

----------------------------------------------------------------------------
(* C3 *)

\* C3: on any file (or none), store of a candidate holding a line break reports
\* the multi-line error and leaves the file as it was, neither created nor
\* appended to.
C3_MultilineRejected ==
    (Ran("store") /\ ~NoLineBreak(cli.arg))
    => /\ oneliners_file = pre
       /\ stdout = <<Msg(ErrMultiline),
                     [kind |-> "{}", ord |-> 0, text |-> cli.arg]>>

\* store("a\n") with no file: still no file
C3_Witness ==
    /\ Ran("store")
    /\ cli.arg = <<97, LF>>
    /\ ~pre.exists
    /\ ~oneliners_file.exists
    /\ stdout[1] = Msg(ErrMultiline)

----------------------------------------------------------------------------
(* C4 *)

\* C4: on any existing file, list prints exactly the first min(10, k) of the k
\* lines that are non-empty after trimming, in file order, each trimmed and
\* numbered 1 .. min(10, k) (and the no-entries message when k = 0).
C4_ListFirstTen ==
    (Ran("list") /\ pre.exists)
    => LET ls == lines(pre.bytes)
           idx == {i \in 1 .. Len(ls) : ~Blank(ls[i])}
       IN  /\ Entries(stdout) = FirstOf(ls, idx, 10, trim)
           /\ stdout = IF idx = {} THEN <<Msg("No entries found.")>> ELSE Entries(stdout)

\* list on 15 distinct lines "ab" .. "ap": the first ten, "ab" .. "ak"
C4_Witness ==
    /\ Ran("list")
    /\ oneliners_file.bytes = GenFile(1, 15)
    /\ Len(stdout) = 10
    /\ stdout[1] = [kind |-> "{}: {}", ord |-> 1, text |-> <<97, 98>>]
    /\ stdout[10] = [kind |-> "{}: {}", ord |-> 10, text |-> <<97, 107>>]

----------------------------------------------------------------------------
(* C5 *)

\* C5: on any existing file, get returns and echoes, numbered from 1, exactly
\* the first min(3, m) of the m non-empty lines that hold the search string as
\* an exact substring, in file order; never more than 3.
C5_GetFirstThree ==
    (Ran("get") /\ pre.exists)
    => LET ls == lines(pre.bytes)
           idx == {i \in 1 .. Len(ls) : ls[i] # <<>> /\ contains(ls[i], cli.arg)}
       IN  /\ Entries(stdout) = FirstOf(ls, idx, 3, Same)
           /\ Len(Entries(stdout)) <= 3
           /\ idx = {} => stdout = <<Msg("No matches found.")>>
           /\ idx # {} => stdout[Len(Entries(stdout)) + 1] =
                            [kind |-> "Select a oneliner (1-{}):",
                             ord |-> Len(Entries(stdout)), text |-> <<>>]

\* get("A") on 15 lines, every second one in upper case: "AC", "AE", "AG"
C5_Witness ==
    /\ Ran("get")
    /\ cli.arg = <<65>>
    /\ oneliners_file.bytes = GenFile(3, 15)
    /\ Entries(stdout) = numbered(<< <<65, 67>>, <<65, 69>>, <<65, 71>> >>)

----------------------------------------------------------------------------
(* C6 *)

\* C6 as stated: no blank line of the file (empty, or whitespace only) appears
\* in the output of list or in the result of get.
C6_NoBlankLines_Original ==
    (Ran("list") \/ Ran("get"))
    => \A j \in 1 .. Len(Entries(stdout)) : ~Blank(Entries(stdout)[j].text)

\* C6 amended: no blank line of the file (empty, or whitespace only) appears in
\* the output of list, and no empty line appears in the result of get; get does
\* return a whitespace-only line that holds the search string.
C6_NoBlankLines ==
    /\ Ran("list") => \A j \in 1 .. Len(Entries(stdout)) : ~Blank(Entries(stdout)[j].text)
    /\ Ran("get") => \A j \in 1 .. Len(Entries(stdout)) : Entries(stdout)[j].text # <<>>

\* get("") on "\n" "ac\n" "ad\n" " \n" "af\n": the lines after the empty one
C6_Witness ==
    /\ Ran("get")
    /\ cli.arg = <<>>
    /\ oneliners_file.bytes = GenFile(4, 5)
    /\ Entries(stdout) = numbered(<< <<97, 99>>, <<97, 100>>, <<32>> >>)

----------------------------------------------------------------------------
(* C7 *)

\* C7: get hands a line to the clipboard exactly when there is a match and the
\* line read from standard input parses as an unsigned k with 1 <= k <= the
\* number of matches, and then once, the k-th match; with no match nothing is
\* read or prompted; any other input ends the run after the prompt, with no
\* clipboard call and no message.
C7_Selection ==
    Ran("get")
    => LET ms == Entries(stdout)
           k == parse_usize(trim(read_line(stdin)))
           valid == ms # <<>> /\ k.ok /\ \E n \in 1 .. Len(ms) : k.value = to_digits(n)
           chosen == CHOOSE n \in 1 .. Len(ms) : k.value = to_digits(n)
           prompt == [kind |-> "Select a oneliner (1-{}):", ord |-> Len(ms),
                      text |-> <<>>]
       IN  /\ clipboard = IF valid THEN <<ms[chosen].text>> ELSE <<>>
           /\ touched.stdin_read = (ms # <<>>)
           /\ ms = <<>> => /\ Len(stdout) = 1
                           /\ stdout[1].kind \in {"No matches found.",
                                                  "No oneliners stored yet."}
           /\ (ms # <<>> /\ ~valid) => stdout = ms \o <<prompt>>
           /\ valid => stdout = ms \o <<prompt, Msg("Snippet copied to clipboard!")>>

\* get("a") on "a\n a": two matches, "2\n" typed, the second goes to the clipboard
C7_Witness ==
    /\ Ran("get")
    /\ cli.arg = <<97>>
    /\ oneliners_file.bytes = <<97, LF, 32, 97>>
    /\ stdin = <<50, LF>>
    /\ clipboard = << <<32, 97>> >>

----------------------------------------------------------------------------
(* C8 *)

\* C8: without xclip every invocation prints the diagnostic and exits with
\* status 1, having resolved no home directory, opened no file, read no
\* standard input and left the file as it was.
C8_NoXclip ==
    (cli.command # "none" /\ ~env.xclip)
    => /\ stdout = <<Msg("xclip is not installed.")>>
       /\ exit_code = 1
       /\ touched = [home_resolved |-> FALSE, file_opened |-> FALSE,
                     stdin_read |-> FALSE]
       /\ clipboard = <<>>
       /\ oneliners_file = pre

\* store("a") without xclip and without a file: status 1, still no file
C8_Witness ==
    /\ cli = [command |-> "store", arg |-> <<97>>]
    /\ ~env.xclip
    /\ ~pre.exists
    /\ ~oneliners_file.exists
    /\ exit_code = 1

----------------------------------------------------------------------------
(* C9 *)

\* C9: the file before an invocation is a prefix of the file after it; list
\* and get leave it as it was and never create it; only a successful store
\* changes or creates it, and that adds exactly one line at the end.
C9_AppendOnly ==
    /\ IsPrefix(pre.bytes, oneliners_file.bytes)
    /\ pre.exists => oneliners_file.exists
    /\ cli.command \in {"get", "list"} => oneliners_file = pre
    /\ oneliners_file # pre
       => /\ Ran("store")
          /\ stdout = <<Stored>>
    /\ (cli.command = "store" /\ stdout = <<Stored>>)
       => /\ oneliners_file.exists
          /\ Len(lines(oneliners_file.bytes)) = Len(lines(pre.bytes)) + 1
          /\ SubSeq(lines(oneliners_file.bytes), 1, Len(lines(pre.bytes)))
               = lines(pre.bytes)
          /\ trim(lines(oneliners_file.bytes)[Len(lines(oneliners_file.bytes))])
               = trim(cli.arg)
    /\ (cli.command = "store" /\ stdout # <<Stored>>)
       => oneliners_file = pre

\* a second line stored after a first
C9_Witness ==
    /\ Ran("store")
    /\ Len(lines(pre.bytes)) = 1
    /\ Len(lines(oneliners_file.bytes)) = 2
    /\ stdout = <<Stored>>

----------------------------------------------------------------------------
(* C10 *)

BothDone == \A p \in Procs : proc[p].pc = "done"

\* both invocations were given s and both read the file before either wrote
\* to it: neither found s
BothMissed(s) ==
    \A p \in Procs :
        /\ proc[p].oneliner = s
        /\ proc[p].stdout = <<Stored>>

\* C10: store holds no lock between its dedup read and its append. Two
\* invocations of the same new snippet that both read before either writes
\* both append it: the file ends as it was, followed by the snippet twice,
\* on two lines unless the writes of the two interleave.
C10_BothAppend ==
    \A s \in RaceOneliners :
        (BothDone /\ BothMissed(s))
        => oneliners_file.bytes \in
             { pre.bytes \o s \o <<LF>> \o s \o <<LF>>,
               pre.bytes \o s \o s \o <<LF, LF>> }

\* the snippet "a" on two lines after "A"
C10_Witness ==
    /\ BothDone
    /\ BothMissed(<<97>>)
    /\ lines(oneliners_file.bytes) = << <<65>>, <<97>>, <<97>> >>

====
